---- MODULE Spec2Model ----
(***************************************************************************)
(* Multi-tenant todo application: the JWT ownership gate and the task      *)
(* CRUD operations of the FastAPI backend, and the session store and API   *)
(* client of the Next.js frontend.                                         *)
(***************************************************************************)
EXTENDS Integers, Sequences, FiniteSets, TLC

\* ------------------------------------------------------------------ bounds
\* Size of the pool of uuid4 values the Task model can draw ids from.
MaxTasks == 2
\* Last value of the UTC clock read by datetime.utcnow().
MaxClock == 1
\* Number of fetch() calls the page can have outstanding at once.
MaxInflight == 2
\* Longest text typed into the title field of TodoForm.
MaxTitle == 2

\* ------------------------------------------------------------ value domains
Users == {"u1", "u2"}
TaskIds == 1..MaxTasks
Absent == "absent"

\* Request bodies for TaskCreate / TaskUpdate; the empty title is the one
\* that fails Field(..., min_length=1).
TaskData ==
    { [title |-> "a", description |-> "none"],
      [title |-> "b", description |-> "d"],
      [title |-> "", description |-> "none"] }

Ops == {"create", "list", "get", "update", "delete", "toggle"}

\* ------------------------------------------------------------- credentials
\* A JWT payload.  "sub" is the claim the issuer writes; "id" is the key the
\* route handlers read.  A payload is issued for one principal, so when it
\* carries "id" it is that principal's id.
Payload(u, withId) == [sub |-> u, id |-> IF withId THEN u ELSE Absent]

\* A token string: form "jwt" is a three-segment signed token, "opaque" is
\* any other string (such as base64 of a JSON object).  exp is the clock
\* value of the "exp" claim.
Token(form, sig, exp, payload) ==
    [form |-> form, sig |-> sig, exp |-> exp, payload |-> payload]

\* An "exp" claim beyond every clock value of the model.
Forever == MaxClock + 1

NoToken == Token("opaque", "none", 0, Payload(Absent, FALSE))

\* The value of the Authorization header: scheme "none" is a missing header.
Header(scheme, token) == [scheme |-> scheme, token |-> token]
NoHeader == Header("none", NoToken)
Bearer(token) == Header("Bearer", token)

ValidTokens ==
    { Token("jwt", "good", Forever, Payload(u, w)) : u \in Users, w \in BOOLEAN }

\* Not a JWT; a JWT signed with another secret; a JWT whose "exp" has passed.
InvalidTokens ==
    { Token("opaque", "none", Forever, Payload("u1", FALSE)),
      Token("jwt", "bad", Forever, Payload("u1", TRUE)),
      Token("jwt", "good", 0, Payload("u1", TRUE)) }

Credentials ==
    {NoHeader, Header("Basic", NoToken)}
        \cup { Bearer(t) : t \in ValidTokens \cup InvalidTokens }

\* Variant of jwt.decode that takes a token for expired one clock value
\* before its "exp".
jwt_decode_early(token, t) ==
    /\ token.form = "jwt"
    /\ token.sig = "good"
    /\ t + 1 < token.exp

\* jwt.decode(token, secret, algorithms=["HS256"]) succeeds exactly on a
\* well-formed token whose signature matches the secret and that has not
\* expired at the time t of the call; every failure is a
\* jwt.InvalidTokenError.
jwt_decode_ok(token, t) ==
    /\ token.form = "jwt"
    /\ token.sig = "good"
    /\ t < token.exp

\* The authenticated identity of a verified credential: its "sub" claim.
Identity(authorization) == authorization.token.payload.sub

\* ------------------------------------------------------------------ state
VARIABLES
    tasks,      \* rows of the tasks table
    usedIds,    \* uuid values already drawn
    creator,    \* history: task id -> identity of the creating caller
    now,        \* datetime.utcnow()
    resp,       \* the request being answered and the response to it
    tasks2,     \* second run of the backend: its tasks table
    resp2,      \* second run of the backend: its response
    earlier,    \* history: an earlier allowed read and its status
    localStorage,   \* browser: the auth_token and auth_user entries
    location,   \* browser: URL of the mounted page
    nav,        \* browser: navigation requested and not yet committed
    pageUser,   \* the mounted page's `user` state
    inflight,   \* fetch() calls sent and not yet answered
    outcome,    \* result of the apiRequest call that just settled
    filters,    \* TodosPage: the `filters` state
    fetchDue,   \* TodosPage: the [user, filters] effect has yet to run
    loading,    \* the mounted page's `loading` / `submitting` state
    shown,      \* TodosPage: the `tasks` state, as the last setTasks left it
    todoForm,   \* TodoForm: the title, description and error states
    submitting, \* the `loading` prop of TodoForm
    confirmed,  \* TodoItem: the last confirm() dialog and its answer
    settled,    \* the tasksAPI call whose apiRequest just settled
    alerted     \* the message of the last alert()

serverVars == <<tasks, usedIds, creator, now, resp>>
shadowVars == <<tasks2, resp2, earlier>>
clientVars == <<localStorage, location, nav, pageUser, inflight, outcome>>
uiVars ==
    <<filters, fetchDue, loading, shown, todoForm, submitting, confirmed,
      settled, alerted>>

vars == <<serverVars, shadowVars, clientVars, uiVars>>

\* The credential verifies now: what the gate is specified to decide first.
Verifies(authorization) ==
    /\ authorization.scheme = "Bearer"
    /\ jwt_decode_ok(authorization.token, now)

\* --------------------------------------------------------- backend: auth
\* Variant of get_current_user that decodes the payload without verifying
\* the signature or the expiry.
get_current_user_unverified(authorization, t) ==
    IF authorization.scheme # "Bearer"
    THEN [ok |-> FALSE, status |-> 401, detail |-> "Missing or invalid token",
          payload |-> Payload(Absent, FALSE)]
    ELSE [ok |-> TRUE, status |-> 200, detail |-> "",
          payload |-> authorization.token.payload]

\* Variant of get_current_user that reports an expired token as such.
get_current_user_tells_expiry(authorization, t) ==
    IF authorization.scheme # "Bearer"
    THEN [ok |-> FALSE, status |-> 401, detail |-> "Missing or invalid token",
          payload |-> Payload(Absent, FALSE)]
    ELSE IF authorization.token.form = "jwt" /\ authorization.token.sig = "good"
            /\ t >= authorization.token.exp
    THEN [ok |-> FALSE, status |-> 401, detail |-> "Token expired",
          payload |-> Payload(Absent, FALSE)]
    ELSE IF ~jwt_decode_ok(authorization.token, t)
    THEN [ok |-> FALSE, status |-> 401, detail |-> "Invalid token",
          payload |-> Payload(Absent, FALSE)]
    ELSE [ok |-> TRUE, status |-> 200, detail |-> "",
          payload |-> authorization.token.payload]

\* get_current_user: the FastAPI dependency every task route declares.
get_current_user(authorization, t) ==
    IF authorization.scheme # "Bearer"
    THEN [ok |-> FALSE, status |-> 401, detail |-> "Missing or invalid token",
          payload |-> Payload(Absent, FALSE)]
    ELSE IF ~jwt_decode_ok(authorization.token, t)
    THEN [ok |-> FALSE, status |-> 401, detail |-> "Invalid token",
          payload |-> Payload(Absent, FALSE)]
    ELSE [ok |-> TRUE, status |-> 200, detail |-> "",
          payload |-> authorization.token.payload]

\* The user_id validation at the top of every route handler:
\*     if current_user["id"] != user_id: raise HTTPException(403)
\* current_user is the decoded payload; reading a key the payload does not
\* carry raises KeyError, which the framework answers with 500.
user_id_check(current_user, user_id) ==
    IF current_user.id = Absent THEN "KeyError"
    ELSE IF current_user.id # user_id THEN "Forbidden"
    ELSE "ok"

\* Pydantic validation of the request body (TaskCreate, TaskUpdate).
body_valid(op, task_data) ==
    op \in {"create", "update"} => Len(task_data.title) >= 1

\* ------------------------------------------------------ backend: storage
\* One storage access: the statement kind and the owner it is restricted to
\* (the user_id of the WHERE clause, or of the row written or deleted).
Access(kind, owner) == [kind |-> kind, owner |-> owner]

\* Variant of create_task that stores a fixed owner instead of the caller.
create_task_fixed_owner(user_id, task_data, id, t) ==
    [id |-> id, user_id |-> "u1", title |-> task_data.title,
     description |-> task_data.description, completed |-> FALSE,
     created_at |-> t, updated_at |-> t]

create_task(user_id, task_data, id, t) ==
    [id |-> id, user_id |-> user_id, title |-> task_data.title,
     description |-> task_data.description, completed |-> FALSE,
     created_at |-> t, updated_at |-> t]

\* Variant of list_tasks without the WHERE clause.
list_tasks_unfiltered(user_id, store) == store

list_tasks(user_id, store) == { t \in store : t.user_id = user_id }

\* Variant of get_task that looks the task up by id alone.
get_task_by_id(user_id, task_id, store) ==
    { t \in store : t.id = task_id }

get_task(user_id, task_id, store) ==
    { t \in store : t.id = task_id /\ t.user_id = user_id }

\* Variant of update_task that leaves updated_at as it was.
update_task_stale(task, task_data, t) ==
    [task EXCEPT !.title = task_data.title,
                 !.description = task_data.description]

\* Variant of update_task that also resets the completion flag.
update_task_reopens(task, task_data, t) ==
    [task EXCEPT !.title = task_data.title,
                 !.description = task_data.description,
                 !.completed = FALSE,
                 !.updated_at = t]

update_task(task, task_data, t) ==
    [task EXCEPT !.title = task_data.title,
                 !.description = task_data.description,
                 !.updated_at = t]

\* Variant of delete_task that answers without removing the row.
delete_task_kept(task, store) == store

delete_task(task, store) == store \ {task}

toggle_completion(task, completed, t) ==
    [task EXCEPT !.completed = completed, !.updated_at = t]

\* ------------------------------------------------------- backend: routes
Response(status, detail, body, touched, store) ==
    [status |-> status, detail |-> detail, body |-> body,
     touched |-> touched, store |-> store]

\* The body of a route once the gate has passed: the storage operations of
\* the six endpoints, each on the path's user_id.
operation(op, user_id, tid, newId, task_data, completed, store, t) ==
    LET found == get_task(user_id, tid, store)
        task == CHOOSE x \in found : TRUE
        sel == {Access("select", user_id)}
    IN  CASE op = "create" ->
               LET row == create_task(user_id, task_data, newId, t)
               IN  Response(201, "", {row}, {Access("insert", row.user_id)},
                            store \cup {row})
          [] op = "list" ->
               Response(200, "", list_tasks(user_id, store), sel, store)
          [] found = {} ->
               Response(404, "Task not found", {}, sel, store)
          [] op = "get" ->
               Response(200, "", {task}, sel, store)
          [] op = "update" ->
               LET row == update_task(task, task_data, t)
               IN  Response(200, "", {row},
                            sel \cup {Access("update", task.user_id)},
                            delete_task(task, store) \cup {row})
          [] op = "delete" ->
               Response(204, "", {},
                        sel \cup {Access("delete", task.user_id)},
                        delete_task(task, store))
          [] op = "toggle" ->
               LET row == toggle_completion(task, completed, t)
               IN  Response(200, "", {row},
                            sel \cup {Access("update", task.user_id)},
                            delete_task(task, store) \cup {row})

\* Variant of route that runs the operation before the user_id check.
route_check_last(op, user_id, authorization, tid, newId, task_data, completed, store, t) ==
    LET cu == get_current_user(authorization, t)
        chk == user_id_check(cu.payload, user_id)
        done == operation(op, user_id, tid, newId, task_data, completed,
                          store, t)
    IN  IF ~cu.ok THEN Response(cu.status, cu.detail, {}, {}, store)
        ELSE IF ~body_valid(op, task_data)
        THEN Response(422, "Validation error", {}, {}, store)
        ELSE IF chk = "KeyError"
        THEN Response(500, "Internal Server Error", {}, {}, store)
        ELSE IF chk = "Forbidden"
        THEN Response(403, "Forbidden", {}, done.touched, done.store)
        ELSE done

\* A task route: Depends(get_current_user), then body validation, then the
\* user_id check, then the operation.
route(op, user_id, authorization, tid, newId, task_data, completed, store, t) ==
    LET cu == get_current_user(authorization, t)
        chk == user_id_check(cu.payload, user_id)
    IN  IF ~cu.ok THEN Response(cu.status, cu.detail, {}, {}, store)
        ELSE IF ~body_valid(op, task_data)
        THEN Response(422, "Validation error", {}, {}, store)
        ELSE IF chk = "KeyError"
        THEN Response(500, "Internal Server Error", {}, {}, store)
        ELSE IF chk = "Forbidden"
        THEN Response(403, "Forbidden", {}, {}, store)
        ELSE operation(op, user_id, tid, newId, task_data, completed, store, t)

\* -------------------------------------------------------------- actions
NoRequest ==
    [op |-> "none", user_id |-> Absent, authorization |-> NoHeader, tid |-> 0,
     status |-> 0, detail |-> "", body |-> {}, touched |-> {}]

\* What is kept of an answered request to compare a later one with.
Summary(r) ==
    [op |-> r.op, user_id |-> r.user_id, authorization |-> r.authorization,
     tid |-> r.tid, status |-> r.status]

\* ---------------------------------------------------- frontend: session
NoUser == [id |-> Absent, email |-> Absent, name |-> Absent]

Emails == {"ann@x.io"}

\* email.split('@')[0]
LocalPart(email) == IF email = "ann@x.io" THEN "ann" ELSE email

EmptyStorage == [auth_token |-> NoToken, auth_user |-> NoUser]

\* The pages run as client components, in a browser window.
getToken(ls) == ls.auth_token

getUser(ls) == ls.auth_user

setAuth(user, token) == [auth_token |-> token, auth_user |-> user]

clearAuth == EmptyStorage

isAuthenticated(ls) == getToken(ls) # NoToken /\ getUser(ls) # NoUser

\* login(): a mock user with a random id, and as token the base64 of the
\* JSON claims (no header segment, no signature).
mockUser(id, email) == [id |-> id, email |-> email, name |-> LocalPart(email)]

mockToken(user) == Token("opaque", "none", Forever, Payload(user.id, FALSE))

login(id, email) == setAuth(mockUser(id, email), mockToken(mockUser(id, email)))

\* ------------------------------------------------- frontend: navigation
Protected == {"/todos", "/todos/new", "/todos/[id]"}
Locations == {"/", "/login"} \cup Protected

\* hard: assignment to window.location.href (the document is replaced);
\* soft: router.push (the script context survives).
Nav(to, hard) == [to |-> to, hard |-> hard]
NoNav == Nav(Absent, FALSE)

\* ------------------------------------------------ frontend: API client
Statuses == {200, 201, 204, 400, 401, 403, 404, 422, 500}

\* response.ok
ok(status) == status >= 200 /\ status <= 299

\* What response.json() finds: an object with a "detail" string, any other
\* JSON value, or text that is not JSON.
Bodies == {"detail", "json", "invalid"}

Outcome(status, kind, error, data) ==
    [status |-> status, kind |-> kind, error |-> error, data |-> data]
NoOutcome == Outcome(0, "none", "", "none")
Throw(status, error) == Outcome(status, "throw", error, "none")
Return(status, data) == Outcome(status, "return", "", data)

\* apiRequest up to the fetch() call: the headers it builds.
apiHeaders(ls) ==
    IF getToken(ls) # NoToken THEN Bearer(getToken(ls)) ELSE NoHeader

ApiResult(out, ls, nv) == [outcome |-> out, localStorage |-> ls, nav |-> nv]

\* Variant of on401 that removes only 'auth_token'.
on401_keeps_user(status, ls, nv) ==
    ApiResult(Throw(status, "Unauthorized"),
              [ls EXCEPT !.auth_token = NoToken], Nav("/login", TRUE))

\* The 401 branch: both entries removed, location set, 'Unauthorized' thrown.
on401(status, ls, nv) ==
    ApiResult(Throw(status, "Unauthorized"),
              [ls EXCEPT !.auth_token = NoToken, !.auth_user = NoUser],
              Nav("/login", TRUE))

\* Variant of on403 that also clears the session and redirects.
on403_relogin(status, ls, nv) ==
    ApiResult(Throw(status, "Access denied"), EmptyStorage,
              Nav("/login", TRUE))

\* The 403 branch: 'Access denied' thrown, nothing else.
on403(status, ls, nv) == ApiResult(Throw(status, "Access denied"), ls, nv)

\* Variant of apiResponse that tests response.ok right after the 401 branch.
apiResponse_ok_first(status, body, ls, nv) ==
    IF status = 401 THEN on401(status, ls, nv)
    ELSE IF ~ok(status)
    THEN ApiResult(Throw(status,
                         IF body = "detail" THEN "detail"
                         ELSE "Request failed with status " \o ToString(status)),
                   ls, nv)
    ELSE IF status = 204
    THEN ApiResult(Return(status, "null"), ls, nv)
    ELSE IF body = "invalid"
    THEN ApiResult(Throw(status, "SyntaxError"), ls, nv)
    ELSE ApiResult(Return(status, body), ls, nv)

\* apiRequest after the fetch() call resolves: the branch per status.
apiResponse(status, body, ls, nv) ==
    IF status = 401 THEN on401(status, ls, nv)
    ELSE IF status = 403 THEN on403(status, ls, nv)
    ELSE IF status = 404
    THEN ApiResult(Throw(status, "Resource not found"), ls, nv)
    ELSE IF status = 422
    THEN ApiResult(Throw(status, CASE body = "detail" -> "detail"
                                   [] body = "json" -> "Validation error"
                                   [] OTHER -> "SyntaxError"), ls, nv)
    ELSE IF status = 204
    THEN ApiResult(Return(status, "null"), ls, nv)
    ELSE IF ~ok(status)
    THEN ApiResult(Throw(status,
                         IF body = "detail" THEN "detail"
                         ELSE "Request failed with status " \o ToString(status)),
                   ls, nv)
    ELSE IF body = "invalid"
    THEN ApiResult(Throw(status, "SyntaxError"), ls, nv)
    ELSE ApiResult(Return(status, body), ls, nv)

\* The requests each page issues through tasksAPI.
PageOps(loc) ==
    CASE loc = "/todos" -> {"list", "toggle", "delete"}
      [] loc = "/todos/new" -> {"create"}
      [] loc = "/todos/[id]" -> {"get", "update"}
      [] OTHER -> {}

ApiCall(op, user_id, authorization) ==
    [op |-> op, user_id |-> user_id, authorization |-> authorization]

\* ------------------------------------------------- frontend: page state
\* The initial `filters` state of TodosPage, and what Clear Filters passes.
DefaultFilters ==
    [completed |-> "all", search |-> "", sort |-> "created_at", order |-> "desc"]

\* Values the filter controls can pass: the text typed into the search
\* box, the three completion buttons, the options of the sort select.
SearchValues == {"", "x"}
CompletedValues == {"all", "false", "true"}
SortValues == {"created_at", "title"}

\* Variant of handleSortChange that builds the object without `...filters`.
handleSortChange_fresh(f, value) == [DefaultFilters EXCEPT !.sort = value]

\* TodoFilters: the object each handler passes to onFilterChange.
handleSearchChange(f, value) == [f EXCEPT !.search = value]

handleCompletedFilter(f, value) == [f EXCEPT !.completed = value]

handleSortChange(f, value) == [f EXCEPT !.sort = value]

clearFilters ==
    [completed |-> "all", search |-> "", sort |-> "created_at", order |-> "desc"]

\* The `tasks` state: the filters a list response was requested for and
\* its rows; useState([]) before the first response.
List(for, rows) == [for |-> for, rows |-> rows]
\* Nothing fetched yet: useState([]).
NoFilters ==
    [completed |-> Absent, search |-> Absent, sort |-> Absent, order |-> Absent]
NoList == List(NoFilters, {})

\* The text of the title field, character by character.
TitleChars == {" ", "a"}
Titles == UNION { [1..n -> TitleChars] : n \in 0..MaxTitle }
Descriptions == {"none", "d"}

NoForm == [title |-> <<>>, description |-> "none", error |-> ""]

\* String.prototype.trim(): whitespace removed from both ends.
RECURSIVE TrimStart(_)
TrimStart(text) ==
    IF text = <<>> THEN text
    ELSE IF Head(text) = " " THEN TrimStart(Tail(text))
    ELSE text

RECURSIVE TrimEnd(_)
TrimEnd(text) ==
    IF text = <<>> THEN text
    ELSE IF text[Len(text)] = " " THEN TrimEnd(SubSeq(text, 1, Len(text) - 1))
    ELSE text

Trim(text) == TrimEnd(TrimStart(text))

\* Variant of the title check without trim().
titleGiven_untrimmed(title) == title # <<>>

\* TodoForm.handleSubmit: `title.trim()` is truthy.
titleGiven(title) == Trim(title) # <<>>

NoDialog == [tid |-> 0, accepted |-> FALSE]

\* A tasksAPI call of a page: the request as apiRequest sends it, the task
\* id, the argument (the filters of a list; the filters in the closure of
\* a toggle or delete handler; the form data of a create or update), and
\* the response once the backend has produced it (status 0: not yet).
PageCall(op, user_id, authorization, tid, arg, completed) ==
    [op |-> op, user_id |-> user_id, authorization |-> authorization,
     tid |-> tid, arg |-> arg, completed |-> completed,
     status |-> 0, rows |-> {}, stale |-> FALSE]

\* The calls of a page that unmounts stay outstanding; their continuations
\* run later against state setters that no longer have a component.
Unmounted(calls) ==
    [i \in DOMAIN calls |->
        IF "stale" \in DOMAIN calls[i]
        THEN [calls[i] EXCEPT !.stale = TRUE]
        ELSE calls[i]]

NoCall == PageCall("none", Absent, NoHeader, 0, Absent, FALSE)

\* useState(true) in TodosPage and EditTaskPage, useState(false) elsewhere.
InitialLoading(loc) == loc \in {"/todos", "/todos/[id]"}

Init ==
    /\ tasks = {}
    /\ usedIds = {}
    /\ creator = [i \in TaskIds |-> Absent]
    /\ now = 0
    /\ resp = NoRequest
    /\ tasks2 = {}
    /\ resp2 = NoRequest
    /\ earlier = Summary(NoRequest)
    /\ localStorage = EmptyStorage
    /\ location = "/"
    /\ nav = NoNav
    /\ pageUser = NoUser
    /\ inflight = <<>>
    /\ outcome = NoOutcome
    /\ filters = DefaultFilters
    /\ fetchDue = FALSE
    /\ loading = FALSE
    /\ shown = NoList
    /\ todoForm = NoForm
    /\ submitting = FALSE
    /\ confirmed = NoDialog
    /\ settled = NoCall
    /\ alerted = ""

\* uuid.uuid4(): a value not drawn before.
FreshIds == TaskIds \ usedIds

\* The server handles one request, from any client, to completion.
HandleRequest(op, user_id, authorization, tid, newId, task_data, completed) ==
    /\ resp = NoRequest
    /\ LET r == route(op, user_id, authorization, tid, newId, task_data,
                      completed, tasks, now)
           inserted == r.status = 201
       IN  /\ tasks' = r.store
           /\ usedIds' = IF inserted THEN usedIds \cup {newId} ELSE usedIds
           /\ creator' = IF inserted
                         THEN [creator EXCEPT ![newId] = Identity(authorization)]
                         ELSE creator
           /\ resp' = [op |-> op, user_id |-> user_id,
                       authorization |-> authorization, tid |-> tid,
                       status |-> r.status, detail |-> r.detail,
                       body |-> r.body, touched |-> r.touched]
    /\ UNCHANGED <<now, shadowVars, clientVars, uiVars>>

AnyData == CHOOSE d \in TaskData : d.title # ""

\* POST /api/{user_id}/tasks
CreateTask ==
    \E authorization \in Credentials, user_id \in Users,
       newId \in FreshIds, task_data \in TaskData :
        HandleRequest("create", user_id, authorization, newId, newId,
                      task_data, FALSE)

\* GET /api/{user_id}/tasks
ListTasks ==
    \E authorization \in Credentials, user_id \in Users :
        HandleRequest("list", user_id, authorization, 1, 1, AnyData, FALSE)

\* GET /api/{user_id}/tasks/{id}
GetTask ==
    \E authorization \in Credentials, user_id \in Users, tid \in TaskIds :
        HandleRequest("get", user_id, authorization, tid, tid, AnyData, FALSE)

\* PUT /api/{user_id}/tasks/{id}
UpdateTask ==
    \E authorization \in Credentials, user_id \in Users, tid \in TaskIds,
       task_data \in TaskData :
        HandleRequest("update", user_id, authorization, tid, tid, task_data,
                      FALSE)

\* DELETE /api/{user_id}/tasks/{id}
DeleteTask ==
    \E authorization \in Credentials, user_id \in Users, tid \in TaskIds :
        HandleRequest("delete", user_id, authorization, tid, tid, AnyData,
                      FALSE)

\* PATCH /api/{user_id}/tasks/{id}/complete
ToggleTask ==
    \E authorization \in Credentials, user_id \in Users, tid \in TaskIds,
       completed \in BOOLEAN :
        HandleRequest("toggle", user_id, authorization, tid, tid, AnyData,
                      completed)

\* The response leaves the server; the request is over.
Respond ==
    /\ resp # NoRequest
    /\ resp' = NoRequest
    /\ UNCHANGED <<tasks, usedIds, creator, now, shadowVars, clientVars, uiVars>>

\* Wall-clock time passes.
Tick ==
    /\ now < MaxClock
    /\ now' = now + 1
    /\ UNCHANGED <<tasks, usedIds, creator, resp, shadowVars, clientVars, uiVars>>

Next ==
    \/ CreateTask
    \/ ListTasks
    \/ GetTask
    \/ UpdateTask
    \/ DeleteTask
    \/ ToggleTask
    \/ Respond

Spec == Init /\ [][Next]_vars

\* ------------------------------------------------- two runs side by side
\* Two runs of the backend that receive the same requests from owner "u1"
\* and, independently of each other, any requests from anyone else.
OwnerA == "u1"

CredentialsOfA ==
    { c \in Credentials : Verifies(c) /\ Identity(c) = OwnerA }

CredentialsOfOthers == Credentials \ CredentialsOfA

\* The parameters of a request to one of the six endpoints; tid is the id
\* in the path, or for create the uuid the new row draws.
Params(op, tid, task_data, completed) ==
    [op |-> op, tid |-> tid, task_data |-> task_data, completed |-> completed]

RequestParams ==
    { Params("create", i, d, FALSE) : i \in FreshIds, d \in TaskData }
        \cup { Params("list", 1, AnyData, FALSE) }
        \cup { Params(op, i, AnyData, FALSE) :
                   op \in {"get", "delete"}, i \in TaskIds }
        \cup { Params("update", i, d, FALSE) : i \in TaskIds, d \in TaskData }
        \cup { Params("toggle", i, AnyData, c) : i \in TaskIds, c \in BOOLEAN }

Answer(q, user_id, authorization, r) ==
    [op |-> q.op, user_id |-> user_id, authorization |-> authorization,
     tid |-> q.tid, status |-> r.status, detail |-> r.detail, body |-> r.body,
     touched |-> r.touched]

\* Owner A's request reaches both runs.
RequestOfA ==
    /\ resp = NoRequest
    /\ \E authorization \in CredentialsOfA, user_id \in Users,
          q \in RequestParams :
           LET r1 == route(q.op, user_id, authorization, q.tid, q.tid,
                           q.task_data, q.completed, tasks, now)
               r2 == route(q.op, user_id, authorization, q.tid, q.tid,
                           q.task_data, q.completed, tasks2, now)
           IN  /\ tasks' = r1.store
               /\ tasks2' = r2.store
               /\ resp' = Answer(q, user_id, authorization, r1)
               /\ resp2' = Answer(q, user_id, authorization, r2)
               /\ usedIds' = IF 201 \in {r1.status, r2.status}
                             THEN usedIds \cup {q.tid} ELSE usedIds
               /\ creator' = IF r1.status = 201
                             THEN [creator EXCEPT ![q.tid] = Identity(authorization)]
                             ELSE creator
    /\ UNCHANGED <<now, earlier, clientVars, uiVars>>

\* Someone else's request reaches the first run only.
RequestOfOtherFirst ==
    /\ resp = NoRequest
    /\ \E authorization \in CredentialsOfOthers, user_id \in Users,
          q \in RequestParams :
           LET r == route(q.op, user_id, authorization, q.tid, q.tid,
                          q.task_data, q.completed, tasks, now)
           IN  /\ tasks' = r.store
               /\ usedIds' = IF r.status = 201
                             THEN usedIds \cup {q.tid} ELSE usedIds
               /\ creator' = IF r.status = 201
                             THEN [creator EXCEPT ![q.tid] = Identity(authorization)]
                             ELSE creator
    /\ UNCHANGED <<now, resp, tasks2, resp2, earlier, clientVars, uiVars>>

\* Someone else's request reaches the second run only.
RequestOfOtherSecond ==
    /\ resp = NoRequest
    /\ \E authorization \in CredentialsOfOthers, user_id \in Users,
          q \in RequestParams :
           LET r == route(q.op, user_id, authorization, q.tid, q.tid,
                          q.task_data, q.completed, tasks2, now)
           IN  /\ tasks2' = r.store
               /\ usedIds' = IF r.status = 201
                             THEN usedIds \cup {q.tid} ELSE usedIds
    /\ UNCHANGED <<tasks, creator, now, resp, resp2, earlier, clientVars, uiVars>>

\* Owner A's responses leave the two servers.
RespondBoth ==
    /\ resp # NoRequest
    /\ resp' = NoRequest
    /\ resp2' = NoRequest
    /\ UNCHANGED <<tasks, usedIds, creator, now, tasks2, earlier, clientVars, uiVars>>

TwoRunsNext ==
    \/ RequestOfA
    \/ RequestOfOtherFirst
    \/ RequestOfOtherSecond
    \/ RespondBoth

TwoRunsSpec == Init /\ [][TwoRunsNext]_vars

\* ------------------------------------------------- one owner, over time
\* The owner's requests, with a credential that verifies throughout, while
\* the clock advances.
OwnerCredential == Bearer(Token("jwt", "good", Forever, Payload(OwnerA, TRUE)))

OwnerRequest ==
    \E q \in RequestParams :
        HandleRequest(q.op, OwnerA, OwnerCredential, q.tid, q.tid,
                      q.task_data, q.completed)

TimedNext ==
    \/ OwnerRequest
    \/ Respond
    \/ Tick

TimedSpec == Init /\ [][TimedNext]_vars

\* ------------------------------------------- repeated reads, over time
\* Credentials that verify at first: the owner's with an "exp" the clock
\* reaches and with one it does not, and another user's.
GateCredentials ==
    { Bearer(Token("jwt", "good", e, Payload(OwnerA, TRUE))) : e \in {1, Forever} }
        \cup { Bearer(Token("jwt", "good", Forever, Payload("u2", TRUE))) }

\* Reads, and the requests that add and remove what they read.
GateParams == { q \in RequestParams :
                  /\ q.op \in {"list", "get", "create", "delete"}
                  /\ q.task_data = AnyData }

AnyRequest ==
    \E authorization \in GateCredentials, user_id \in Users, q \in GateParams :
        HandleRequest(q.op, user_id, authorization, q.tid, q.tid,
                      q.task_data, q.completed)

\* The response to an allowed list or get leaves the server and is kept
\* for comparison.
RespondRemembered ==
    /\ resp.op \in {"list", "get"}
    /\ resp.status \in {200, 404}
    /\ earlier = Summary(NoRequest)
    /\ earlier' = Summary(resp)
    /\ resp' = NoRequest
    /\ UNCHANGED <<tasks, usedIds, creator, now, tasks2, resp2, clientVars, uiVars>>

GateNext ==
    \/ AnyRequest
    \/ Respond
    \/ RespondRemembered
    \/ Tick

GateSpec == Init /\ [][GateNext]_vars

\* ------------------------------------------------------ frontend actions
\* HomePage effect: an authenticated visitor is sent to /todos.
HomeEffect ==
    /\ location = "/" /\ nav = NoNav /\ outcome = NoOutcome
    /\ isAuthenticated(localStorage)
    /\ nav' = Nav("/todos", FALSE)
    /\ UNCHANGED <<localStorage, location, pageUser, inflight, outcome>>
    /\ UNCHANGED <<serverVars, shadowVars, uiVars>>

\* HomePage: the "Get Started" link.
GetStarted ==
    /\ location = "/" /\ nav = NoNav /\ outcome = NoOutcome
    /\ nav' = Nav("/login", FALSE)
    /\ UNCHANGED <<localStorage, location, pageUser, inflight, outcome>>
    /\ UNCHANGED <<serverVars, shadowVars, uiVars>>

\* LoginPage.handleSubmit: login(), then router.push('/todos').
LoginSubmit ==
    /\ location = "/login" /\ nav = NoNav /\ outcome = NoOutcome
    /\ \E id \in Users, email \in Emails :
           localStorage' = login(id, email)
    /\ nav' = Nav("/todos", FALSE)
    /\ UNCHANGED <<location, pageUser, inflight, outcome>>
    /\ UNCHANGED <<serverVars, shadowVars, uiVars>>

\* The auth effect of TodosPage, NewTaskPage and EditTaskPage.
PageAuthEffect ==
    /\ location \in Protected /\ nav = NoNav /\ outcome = NoOutcome
    /\ pageUser = NoUser
    /\ IF ~isAuthenticated(localStorage)
       THEN nav' = Nav("/login", FALSE) /\ UNCHANGED <<pageUser, fetchDue>>
       ELSE /\ pageUser' = getUser(localStorage)
            /\ fetchDue' = (location \in {"/todos", "/todos/[id]"})
            /\ UNCHANGED nav
    /\ UNCHANGED <<localStorage, location, inflight, outcome>>
    /\ UNCHANGED <<filters, loading, shown, todoForm, submitting, confirmed,
                   settled, alerted>>
    /\ UNCHANGED <<serverVars, shadowVars>>

\* Links and router.push between the task pages.
FollowLink ==
    /\ location \in Protected /\ nav = NoNav /\ outcome = NoOutcome
    /\ pageUser # NoUser
    /\ \E to \in Protected \ {location} :
           /\ (location # "/todos" => to = "/todos")
           /\ nav' = Nav(to, FALSE)
    /\ UNCHANGED <<localStorage, location, pageUser, inflight, outcome>>
    /\ UNCHANGED <<serverVars, shadowVars, uiVars>>

\* Variant of canIssue without the `user` checks.
canIssue_always(user) == TRUE

\* What stands between a mounted page and tasksAPI: the fetch effects run
\* under `if (user)`, and the list, the buttons and the forms are rendered
\* only past `if (!user) return <spinner>`.
canIssue(user) == user # NoUser

\* A mounted page calls tasksAPI: apiRequest reads the token, builds the
\* headers and calls fetch().
ApiSend ==
    /\ canIssue(pageUser) /\ outcome = NoOutcome
    /\ Len(inflight) < MaxInflight
    /\ \E op \in PageOps(location) :
           inflight' = Append(inflight,
                              ApiCall(op, pageUser.id, apiHeaders(localStorage)))
    /\ UNCHANGED <<localStorage, location, nav, pageUser, outcome>>
    /\ UNCHANGED <<serverVars, shadowVars, uiVars>>

Remove(seq, i) == SubSeq(seq, 1, i - 1) \o SubSeq(seq, i + 1, Len(seq))

\* A response arrives and apiRequest runs to its return or throw.
ApiReceive ==
    /\ outcome = NoOutcome
    /\ \E i \in 1..Len(inflight), status \in Statuses, body \in Bodies :
           LET r == apiResponse(status, body, localStorage, nav)
           IN  /\ outcome' = r.outcome
               /\ localStorage' = r.localStorage
               /\ nav' = r.nav
               /\ inflight' = Remove(inflight, i)
    /\ UNCHANGED <<location, pageUser>>
    /\ UNCHANGED <<serverVars, shadowVars, uiVars>>

\* fetch() rejects; apiRequest logs and rethrows.
ApiNetworkError ==
    /\ outcome = NoOutcome
    /\ \E i \in 1..Len(inflight) :
           /\ outcome' = Throw(0, "TypeError")
           /\ inflight' = Remove(inflight, i)
    /\ UNCHANGED <<localStorage, location, nav, pageUser>>
    /\ UNCHANGED <<serverVars, shadowVars, uiVars>>

\* The caller's continuation takes the result.
Continue ==
    /\ outcome # NoOutcome
    /\ outcome' = NoOutcome
    /\ UNCHANGED <<localStorage, location, nav, pageUser, inflight>>
    /\ UNCHANGED <<serverVars, shadowVars, uiVars>>

\* Navbar.handleLogout: logout().
Logout ==
    /\ pageUser # NoUser /\ outcome = NoOutcome
    /\ localStorage' = clearAuth
    /\ nav' = Nav("/", TRUE)
    /\ UNCHANGED <<location, pageUser, inflight, outcome>>
    /\ UNCHANGED <<serverVars, shadowVars, uiVars>>

\* The user opens a URL of the application in the address bar.
OpenUrl ==
    /\ nav = NoNav /\ outcome = NoOutcome
    /\ \E to \in Locations : nav' = Nav(to, TRUE)
    /\ UNCHANGED <<localStorage, location, pageUser, inflight, outcome>>
    /\ UNCHANGED <<serverVars, shadowVars, uiVars>>

\* The requested navigation commits: the old page unmounts; a document
\* replacement also drops the calls the old document had outstanding.
NavCommit ==
    /\ nav # NoNav /\ outcome = NoOutcome
    /\ location' = nav.to
    /\ nav' = NoNav
    /\ pageUser' = NoUser
    /\ inflight' = IF nav.hard THEN <<>> ELSE Unmounted(inflight)
    /\ filters' = DefaultFilters
    /\ fetchDue' = FALSE
    /\ loading' = InitialLoading(nav.to)
    /\ shown' = NoList
    /\ todoForm' = NoForm
    /\ submitting' = FALSE
    /\ UNCHANGED <<localStorage, outcome, confirmed, settled, alerted>>
    /\ UNCHANGED <<serverVars, shadowVars>>

\* ------------------------------------------------ TodosPage: the filters
\* TodoFilters is rendered once TodosPage has its user.
FiltersRendered ==
    location = "/todos" /\ pageUser # NoUser /\ outcome = NoOutcome

\* onFilterChange is setFilters: the new object is the `filters` state,
\* and the [user, filters] effect is due again.
SetFilters(f) ==
    /\ FiltersRendered
    /\ filters' = f
    /\ fetchDue' = TRUE
    /\ UNCHANGED <<loading, shown, todoForm, submitting, confirmed, settled,
                   alerted>>
    /\ UNCHANGED <<serverVars, shadowVars, clientVars>>

\* The change event of the search input: the text is another one.
SearchChange == \E value \in SearchValues \ {filters.search} :
    SetFilters(handleSearchChange(filters, value))

CompletedFilter == \E value \in CompletedValues :
    SetFilters(handleCompletedFilter(filters, value))

\* The change event of the sort select: the option is another one.
SortChange == \E value \in SortValues \ {filters.sort} :
    SetFilters(handleSortChange(filters, value))

ClearFilters == SetFilters(clearFilters)

\* The [user, filters] effect of TodosPage runs fetchTasks up to its await:
\* setLoading(true) and tasksAPI.list(user.id, filters).
TodosFetchEffect ==
    /\ location = "/todos" /\ pageUser # NoUser /\ outcome = NoOutcome
    /\ fetchDue
    /\ Len(inflight) < MaxInflight
    /\ fetchDue' = FALSE
    /\ loading' = TRUE
    /\ inflight' = Append(inflight,
                          PageCall("list", pageUser.id,
                                   apiHeaders(localStorage), 0, filters,
                                   FALSE))
    /\ UNCHANGED <<filters, shown, todoForm, submitting, confirmed, settled,
                   alerted>>
    /\ UNCHANGED <<localStorage, location, nav, pageUser, outcome>>
    /\ UNCHANGED <<serverVars, shadowVars>>

FiltersNext ==
    \/ GetStarted
    \/ LoginSubmit
    \/ NavCommit
    \/ PageAuthEffect
    \/ SearchChange
    \/ CompletedFilter
    \/ SortChange
    \/ ClearFilters
    \/ TodosFetchEffect

FiltersSpec == Init /\ [][FiltersNext]_vars

ClientNext ==
    \/ HomeEffect
    \/ GetStarted
    \/ LoginSubmit
    \/ PageAuthEffect
    \/ FollowLink
    \/ ApiSend
    \/ ApiReceive
    \/ ApiNetworkError
    \/ Continue
    \/ Logout
    \/ OpenUrl
    \/ NavCommit

ClientSpec == Init /\ [][ClientNext]_vars

\* --------------------------------------------- frontend against backend
\* What the client finds in the body of a backend response: HTTPException
\* and validation errors are JSON objects with "detail", an unhandled
\* exception is the plain text "Internal Server Error".
ResponseBody(status) ==
    IF ok(status) THEN "json"
    ELSE IF status = 500 THEN "invalid"
    ELSE "detail"

\* A fetch() call reaches the backend, the route answers it, and apiRequest
\* runs on the response to its return or throw.
ApiExchange ==
    /\ outcome = NoOutcome /\ resp = NoRequest
    /\ \E i \in 1..Len(inflight), q \in RequestParams :
           LET call == inflight[i]
               r == route(call.op, call.user_id, call.authorization, q.tid,
                          q.tid, q.task_data, q.completed, tasks, now)
               c == apiResponse(r.status, ResponseBody(r.status),
                                localStorage, nav)
           IN  /\ q.op = call.op
               /\ tasks' = r.store
               /\ usedIds' = IF r.status = 201
                             THEN usedIds \cup {q.tid} ELSE usedIds
               /\ creator' = IF r.status = 201
                             THEN [creator EXCEPT
                                       ![q.tid] = Identity(call.authorization)]
                             ELSE creator
               /\ resp' = Answer(q, call.user_id, call.authorization, r)
               /\ outcome' = c.outcome
               /\ localStorage' = c.localStorage
               /\ nav' = c.nav
               /\ inflight' = Remove(inflight, i)
    /\ UNCHANGED <<now, shadowVars, uiVars, location, pageUser>>

\* The caller's continuation takes the result; the exchange is over.
ExchangeDone ==
    /\ outcome # NoOutcome
    /\ outcome' = NoOutcome
    /\ resp' = NoRequest
    /\ UNCHANGED <<tasks, usedIds, creator, now, shadowVars, uiVars>>
    /\ UNCHANGED <<localStorage, location, nav, pageUser, inflight>>

EndToEndNext ==
    \/ HomeEffect
    \/ GetStarted
    \/ LoginSubmit
    \/ PageAuthEffect
    \/ FollowLink
    \/ ApiSend
    \/ ApiExchange
    \/ ApiNetworkError
    \/ ExchangeDone
    \/ Logout
    \/ OpenUrl
    \/ NavCommit

EndToEndSpec == Init /\ [][EndToEndNext]_vars

\* ------------------------------------------------------------- TodoForm
\* TodosPage: the "+ New Task" link.
NewTaskLink ==
    /\ location = "/todos" /\ pageUser # NoUser
    /\ nav = NoNav /\ outcome = NoOutcome
    /\ nav' = Nav("/todos/new", FALSE)
    /\ UNCHANGED <<localStorage, location, pageUser, inflight, outcome>>
    /\ UNCHANGED <<serverVars, shadowVars, uiVars>>

\* NewTaskPage renders TodoForm once it has its user; the fields and the
\* buttons are disabled while the `loading` prop is set.
FormRendered ==
    /\ location = "/todos/new" /\ pageUser # NoUser
    /\ ~submitting /\ nav = NoNav /\ outcome = NoOutcome

\* Typing into the title and description fields.
EditForm ==
    /\ FormRendered
    /\ \E title \in Titles, description \in Descriptions :
           todoForm' = [todoForm EXCEPT !.title = title,
                                        !.description = description]
    /\ UNCHANGED <<filters, fetchDue, loading, shown, submitting, confirmed,
                   settled, alerted>>
    /\ UNCHANGED <<serverVars, shadowVars, clientVars>>

\* The form's submit event: TodoForm.handleSubmit, and through onSubmit
\* NewTaskPage.handleSubmit up to its await.  (The `required` attribute
\* keeps a click on the submit button from raising the event while the
\* title is empty; an event raised otherwise reaches the handler as is.)
FormSubmit ==
    /\ FormRendered
    /\ IF ~titleGiven(todoForm.title)
       THEN /\ todoForm' = [todoForm EXCEPT !.error = "Title is required"]
            /\ UNCHANGED <<submitting, inflight>>
       ELSE /\ Len(inflight) < MaxInflight
            /\ todoForm' = [todoForm EXCEPT !.error = ""]
            /\ submitting' = TRUE
            /\ inflight' = Append(inflight,
                   PageCall("create", pageUser.id, apiHeaders(localStorage), 0,
                            [title |-> todoForm.title,
                             description |-> todoForm.description], FALSE))
    /\ UNCHANGED <<filters, fetchDue, loading, shown, confirmed, settled,
                   alerted>>
    /\ UNCHANGED <<localStorage, location, nav, pageUser, outcome>>
    /\ UNCHANGED <<serverVars, shadowVars>>

\* The backend answers a call of a page: it runs the operation of the
\* route, or it rejects the request with one of its error statuses.
BackendAnswer ==
    \E i \in 1..Len(inflight), newId \in TaskIds,
       status \in {0, 401, 500} :
        LET call == inflight[i]
            r == operation(call.op, call.user_id, call.tid, newId, call.arg,
                           call.completed, tasks, now)
            st == IF status = 0 THEN r.status ELSE status
        IN  /\ call.status = 0
            /\ newId = IF call.op = "create" THEN newId ELSE 1
            /\ (call.op = "create" /\ status = 0) => newId \in FreshIds
            /\ tasks' = IF status = 0 THEN r.store ELSE tasks
            /\ usedIds' = IF st = 201 THEN usedIds \cup {newId} ELSE usedIds
            /\ creator' = IF st = 201
                          THEN [creator EXCEPT ![newId] = call.user_id]
                          ELSE creator
            /\ inflight' = [inflight EXCEPT
                                ![i] = [call EXCEPT
                                           !.status = st,
                                           !.rows = IF status = 0 THEN r.body
                                                    ELSE {}]]
    /\ UNCHANGED <<now, resp, shadowVars, uiVars>>
    /\ UNCHANGED <<localStorage, location, nav, pageUser, outcome>>

\* What a page can get for an answer, whatever is behind the URL: the
\* success status of the endpoint or an error status.
AnswerStatuses(op) ==
    {IF op = "create" THEN 201 ELSE IF op = "delete" THEN 204 ELSE 200,
     401, 404, 500}

\* Some answer to a call of a page is on its way back.
AnyAnswer ==
    /\ \E i \in 1..Len(inflight) :
           /\ inflight[i].status = 0
           /\ \E status \in AnswerStatuses(inflight[i].op) :
                  inflight' = [inflight EXCEPT ![i].status = status]
    /\ UNCHANGED <<localStorage, location, nav, pageUser, outcome>>
    /\ UNCHANGED <<serverVars, shadowVars, uiVars>>

\* The response to a call arrives and apiRequest runs to its return or
\* throw.  The dialogs of earlier handlers are closed by then.
PageReceive ==
    /\ outcome = NoOutcome
    /\ \E i \in 1..Len(inflight) :
           LET call == inflight[i]
               r == apiResponse(call.status, ResponseBody(call.status),
                                localStorage, nav)
           IN  /\ call.status # 0
               /\ outcome' = r.outcome
               /\ localStorage' = r.localStorage
               /\ nav' = r.nav
               /\ settled' = call
               /\ inflight' = Remove(inflight, i)
    /\ confirmed' = NoDialog
    /\ alerted' = ""
    /\ UNCHANGED <<filters, fetchDue, loading, shown, todoForm, submitting>>
    /\ UNCHANGED <<location, pageUser>>
    /\ UNCHANGED <<serverVars, shadowVars>>

\* NewTaskPage.handleSubmit after its await: router.push('/todos') on
\* success; on failure the error is rethrown to TodoForm.handleSubmit,
\* which shows its message; setLoading(false) either way.
FormContinue ==
    /\ outcome # NoOutcome
    /\ settled.op = "create"
    /\ IF outcome.kind = "return"
       THEN nav' = Nav("/todos", FALSE) /\ UNCHANGED todoForm
       ELSE /\ todoForm' = IF settled.stale THEN todoForm
                           ELSE [todoForm EXCEPT !.error = outcome.error]
            /\ UNCHANGED nav
    /\ submitting' = (settled.stale /\ submitting)
    /\ outcome' = NoOutcome
    /\ settled' = NoCall
    /\ UNCHANGED <<filters, fetchDue, loading, shown, confirmed, alerted>>
    /\ UNCHANGED <<localStorage, location, pageUser, inflight>>
    /\ UNCHANGED <<serverVars, shadowVars>>

FormNext ==
    \/ GetStarted
    \/ LoginSubmit
    \/ NavCommit
    \/ PageAuthEffect
    \/ NewTaskLink
    \/ EditForm
    \/ FormSubmit
    \/ AnyAnswer
    \/ PageReceive
    \/ FormContinue

FormSpec == Init /\ [][FormNext]_vars

\* ------------------------------------------------- TodosPage: the tasks
\* The signed-in user adds a task from somewhere else (another tab); the
\* row gets the next id of the sequence.
CreateElsewhere ==
    /\ isAuthenticated(localStorage)
    /\ \E newId \in FreshIds :
           LET r == operation("create", getUser(localStorage).id, 0, newId,
                              AnyData, FALSE, tasks, now)
           IN  /\ \A other \in FreshIds : newId <= other
               /\ tasks' = r.store
               /\ usedIds' = usedIds \cup {newId}
               /\ creator' = [creator EXCEPT ![newId] = getUser(localStorage).id]
    /\ UNCHANGED <<now, resp, shadowVars, clientVars, uiVars>>

\* TodosPage is mounted with its user.
TodosMounted == location = "/todos" /\ pageUser # NoUser

\* A list request of the mounted page is in flight.
ListInFlight ==
    \E i \in 1..Len(inflight) :
        inflight[i].op = "list" /\ ~inflight[i].stale

\* TodoList renders the items of `tasks` unless `loading` is set.
ItemsRendered ==
    /\ location = "/todos" /\ pageUser # NoUser
    /\ nav = NoNav /\ outcome = NoOutcome
    /\ ~loading

\* Variant of TodoItem.handleDelete that does not look at the answer to
\* the question.
handleDelete_unasked(accepted) == TRUE

\* TodoItem.handleDelete: onDelete is called if confirm() returned true.
handleDelete(accepted) == accepted

\* The checkbox of an item: TodoItem.handleCheckboxChange, then
\* TodosPage.handleToggleComplete up to its await.  The handler belongs to
\* the render it was created in and keeps that render's filters.
ToggleClick ==
    /\ ItemsRendered
    /\ Len(inflight) < MaxInflight
    /\ \E task \in shown.rows :
           inflight' = Append(inflight,
                              PageCall("toggle", pageUser.id,
                                       apiHeaders(localStorage), task.id,
                                       filters, ~task.completed))
    /\ alerted' = ""
    /\ UNCHANGED <<filters, fetchDue, loading, shown, todoForm, submitting,
                   confirmed, settled>>
    /\ UNCHANGED <<localStorage, location, nav, pageUser, outcome>>
    /\ UNCHANGED <<serverVars, shadowVars>>

\* The Delete button of an item: TodoItem.handleDelete asks, and on "OK"
\* TodosPage.handleDelete runs up to its await.
DeleteClick ==
    /\ ItemsRendered
    /\ \E task \in shown.rows, accepted \in BOOLEAN :
           /\ confirmed' = [tid |-> task.id, accepted |-> accepted]
           /\ IF handleDelete(accepted)
              THEN /\ Len(inflight) < MaxInflight
                   /\ inflight' = Append(inflight,
                                         PageCall("delete", pageUser.id,
                                                  apiHeaders(localStorage),
                                                  task.id, filters, FALSE))
              ELSE UNCHANGED inflight
    /\ alerted' = ""
    /\ UNCHANGED <<filters, fetchDue, loading, shown, todoForm, submitting,
                   settled>>
    /\ UNCHANGED <<localStorage, location, nav, pageUser, outcome>>
    /\ UNCHANGED <<serverVars, shadowVars>>

\* The message of the alert in the catch block of a handler.
FailureAlert(op) ==
    IF op = "toggle" THEN "Failed to update task" ELSE "Failed to delete task"

\* TodosPage after an await: fetchTasks from setTasks on, and
\* handleToggleComplete / handleDelete from fetchTasks() or the catch on.
\* The state setters of an unmounted page do nothing.
TodosContinue ==
    /\ outcome # NoOutcome
    /\ settled.op \in {"list", "toggle", "delete"}
    /\ IF settled.op = "list"
       THEN /\ shown' = IF outcome.kind = "return" /\ ~settled.stale
                        THEN List(settled.arg, settled.rows)
                        ELSE shown
            /\ loading' = (settled.stale /\ loading)
            /\ UNCHANGED <<inflight, alerted>>
       ELSE IF outcome.kind = "return"
       THEN /\ loading' = (~settled.stale \/ loading)
            /\ inflight' = Append(inflight,
                   [PageCall("list", settled.user_id,
                             apiHeaders(localStorage), 0, settled.arg, FALSE)
                    EXCEPT !.stale = settled.stale])
            /\ UNCHANGED <<shown, alerted>>
       ELSE /\ alerted' = FailureAlert(settled.op)
            /\ UNCHANGED <<shown, loading, inflight>>
    /\ outcome' = NoOutcome
    /\ settled' = NoCall
    /\ UNCHANGED <<filters, fetchDue, todoForm, submitting, confirmed>>
    /\ UNCHANGED <<localStorage, location, nav, pageUser>>
    /\ UNCHANGED <<serverVars, shadowVars>>

\* TodosPage with its filter control, without the item buttons.
ListNext ==
    \/ GetStarted
    \/ LoginSubmit
    \/ NavCommit
    \/ PageAuthEffect
    \/ CreateElsewhere
    \/ SortChange
    \/ TodosFetchEffect
    \/ BackendAnswer
    \/ PageReceive
    \/ TodosContinue

ListSpec == Init /\ [][ListNext]_vars

\* TodosPage with its Delete buttons alone.
DeleteNext ==
    \/ GetStarted
    \/ LoginSubmit
    \/ NavCommit
    \/ PageAuthEffect
    \/ CreateElsewhere
    \/ TodosFetchEffect
    \/ DeleteClick
    \/ BackendAnswer
    \/ PageReceive
    \/ TodosContinue

DeleteSpec == Init /\ [][DeleteNext]_vars

\* TodosPage with its item buttons, the filters left as they are.
TodosNext ==
    \/ GetStarted
    \/ LoginSubmit
    \/ NavCommit
    \/ PageAuthEffect
    \/ CreateElsewhere
    \/ TodosFetchEffect
    \/ ToggleClick
    \/ DeleteClick
    \/ BackendAnswer
    \/ PageReceive
    \/ TodosContinue

TodosSpec == Init /\ [][TodosNext]_vars

\* ======================================================= ownership gate
Handled == resp.op # "none"

\* The gate let the request through to its operation.
Allowed == Handled /\ resp.status \in {200, 201, 204, 404}

\* C1: a request whose credential verifies and whose authenticated identity
\* (the "sub" claim) equals the path identity is let through: it is answered
\* neither 401 nor 403, nor aborted with 500 before its operation runs.
C1_MatchingIdentityProceeds ==
    (Handled /\ Verifies(resp.authorization)
        /\ Identity(resp.authorization) = resp.user_id)
        => resp.status \notin {401, 403, 500}

\* C2: a request whose credential verifies but whose authenticated identity
\* differs from the path identity is answered 403 (stated for the requests
\* whose body passes validation).
C2_MismatchIsForbidden ==
    (Handled /\ Verifies(resp.authorization)
        /\ Identity(resp.authorization) # resp.user_id
        /\ resp.status # 422)
        => resp.status = 403

\* C3: a request with no credential, or with one that fails verification,
\* is answered 401 and never 403, whatever the path identity is.
C3_UnverifiedIsUnauthenticated ==
    (Handled /\ ~Verifies(resp.authorization)) => resp.status = 401

C3_Witness ==
    /\ Handled
    /\ resp.authorization.scheme = "Bearer"
    /\ resp.authorization.token.sig = "bad"
    /\ resp.authorization.token.payload.id # Absent
    /\ resp.authorization.token.payload.id # resp.user_id
    /\ resp.status = 401

\* C4: a request rejected with 401 or 403 performs no storage read, write
\* or delete.
C4_RejectedTouchesNoStorage ==
    (Handled /\ resp.status \in {401, 403}) => resp.touched = {}

C4_Witness ==
    /\ resp.op = "delete"
    /\ resp.status = 403
    /\ \E t \in tasks : t.user_id = resp.user_id

\* C5: in a request the gate let through, every storage access is
\* restricted to the authenticated identity as owner, and a list or get
\* returns only tasks owned by the authenticated identity.
C5_QueriesFilteredByOwner ==
    Allowed =>
        /\ \A a \in resp.touched : a.owner = Identity(resp.authorization)
        /\ \A t \in resp.body : t.user_id = Identity(resp.authorization)

C5_Witness ==
    /\ resp.op = "list"
    /\ resp.status = 200
    /\ resp.body # {}
    /\ \E t \in tasks : t.user_id # resp.user_id

\* C6: every stored task's owner is the authenticated identity of the
\* caller that created it; no operation changes a task's owner or id.
C6_OwnerIsCreator ==
    \A t \in tasks : t.user_id = creator[t.id]

C6_Witness ==
    /\ resp.op = "update"
    /\ resp.status = 200
    /\ \E t \in resp.body : t \in tasks /\ t.completed /\ t.user_id = "u2"

\* C7: in two runs that differ only in the requests of others, every
\* response to owner A and every task owned by A is the same.
C7_OthersDoNotInterfere ==
    /\ resp = resp2
    /\ { t \in tasks : t.user_id = OwnerA } = { t \in tasks2 : t.user_id = OwnerA }

C7_Witness ==
    /\ resp.op = "list"
    /\ resp.status = 200
    /\ resp.body # {}
    /\ tasks # tasks2
    /\ \E t \in tasks : t.user_id # OwnerA /\ t.completed

\* The ids of the rows of a tasks table.
Ids(store) == { t.id : t \in store }

\* C12: a get, update, delete or toggle by an authenticated user is answered
\* 403 when the task exists and belongs to a different user, and 404 when
\* no task has that id (stated for the requests that get past verification,
\* body validation and the read of current_user["id"]).
C12_OthersTaskIsForbidden ==
    (Handled /\ resp.op \in {"get", "update", "delete", "toggle"}
        /\ resp.status \notin {401, 422, 500}) =>
        /\ (\E t \in tasks : /\ t.id = resp.tid
                              /\ t.user_id # Identity(resp.authorization))
               => resp.status = 403
        /\ (resp.tid \notin usedIds
               /\ resp.user_id = Identity(resp.authorization))
               => resp.status = 404

\* Signed tokens whose "exp" has passed, and tokens signed with another
\* secret.
ExpiredTokens == { k \in InvalidTokens : k.form = "jwt" /\ k.sig = "good" }
ForgedTokens == { k \in InvalidTokens : k.form = "jwt" /\ k.sig = "bad" }

\* C15: a request with an expired credential and the same request with a
\* credential of bad signature get the same response: status 401, the same
\* detail, no body; and the client turns both into the same 'Unauthorized'.
C15_SameOutcomeForExpiredAndForged ==
    (Handled /\ resp.authorization.scheme = "Bearer"
        /\ resp.authorization.token \in ExpiredTokens \cup ForgedTokens) =>
        \A k \in ExpiredTokens \cup ForgedTokens :
            LET other == route(resp.op, resp.user_id, Bearer(k), resp.tid,
                               resp.tid, AnyData, FALSE, tasks, now)
            IN  /\ resp.status = 401
                /\ other.status = resp.status
                /\ other.detail = resp.detail
                /\ other.body = resp.body
                /\ apiResponse(other.status, ResponseBody(other.status),
                               localStorage, nav)
                     = apiResponse(resp.status, ResponseBody(resp.status),
                                   localStorage, nav)
                /\ apiResponse(resp.status, ResponseBody(resp.status),
                               localStorage, nav).outcome
                     = Throw(401, "Unauthorized")

C15_Witness ==
    /\ resp.op = "get"
    /\ resp.authorization.scheme = "Bearer"
    /\ resp.authorization.token \in ExpiredTokens
    /\ resp.status = 401
    /\ \E t \in tasks : t.id = resp.tid /\ t.user_id = resp.user_id
                          /\ t.user_id = Identity(resp.authorization)

\* ============================================================ task rows
\* The ids of the tasks that were created and are no longer stored.
DeletedIds == usedIds \ Ids(tasks)

\* C16: a task whose deletion succeeded is gone for good: the answer 204
\* means the row is no longer stored; no later step stores a row with a
\* deleted id; a later list or any other response carries no such row; and
\* a later get, update, toggle or delete of a deleted id that passes the
\* gate is answered 404.
C16_DeletionIsPermanent ==
    [][/\ (resp'.op = "delete" /\ resp'.status = 204)
              => resp'.tid \notin Ids(tasks')
       /\ \A i \in DeletedIds :
              /\ i \notin Ids(tasks')
              /\ i \notin Ids(resp'.body)
              /\ (resp = NoRequest /\ resp'.tid = i
                     /\ resp'.op \in {"get", "update", "toggle", "delete"}
                     /\ resp'.status \in {200, 204, 404})
                     => resp'.status = 404]_vars

C16_Witness ==
    /\ resp.op = "get"
    /\ resp.status = 404
    /\ resp.tid \in DeletedIds
    /\ resp.user_id = creator[resp.tid]
    /\ Identity(resp.authorization) = creator[resp.tid]
    /\ tasks # {}

\* C17: a successful update or toggle sets the task's updated_at to the time
\* of the request; a task's updated_at never decreases and is never before
\* its created_at, and its created_at never changes.
C17_UpdatedAtFollowsMutations ==
    [][\A t \in tasks' :
           /\ t.created_at <= t.updated_at
           /\ (resp = NoRequest /\ resp'.op \in {"update", "toggle"}
                  /\ resp'.status = 200 /\ resp'.tid = t.id)
                  => t.updated_at = now
           /\ \A s \in tasks : s.id = t.id =>
                  /\ t.created_at = s.created_at
                  /\ t.updated_at >= s.updated_at]_vars

C17_Witness ==
    /\ resp.op = "update"
    /\ resp.status = 200
    /\ \E t \in tasks : /\ t.id = resp.tid
                          /\ t.created_at < t.updated_at
                          /\ t.updated_at = now

\* C18: an update leaves the task's completed flag, id, owner and created_at
\* as they were (it changes title, description and updated_at only); a
\* task's completed flag changes only in a toggle of that task, and a toggle
\* leaves title and description as they were.
C18_UpdateAndToggleFrames ==
    [][\A s \in tasks, t \in tasks' : s.id = t.id =>
           /\ t.user_id = s.user_id
           /\ t.created_at = s.created_at
           /\ resp'.op = "update" => t.completed = s.completed
           /\ t.completed # s.completed =>
                  resp'.op = "toggle" /\ resp'.tid = t.id
           /\ resp'.op = "toggle" =>
                  t.title = s.title /\ t.description = s.description
           /\ (t.title # s.title \/ t.description # s.description) =>
                  resp'.op = "update" /\ resp'.tid = t.id]_vars

C18_Witness ==
    /\ resp.op = "update"
    /\ resp.status = 200
    /\ \E t \in tasks : /\ t.id = resp.tid
                          /\ t.completed
                          /\ t.title = "b"
                          /\ t.description = "d"

\* C19: deciding on a request has no side effect on the server: a request
\* that is rejected, and an allowed list or get, leave the tasks table and
\* every other server state as they were; what an allowed create, update,
\* toggle or delete changes is the one row of its operation.
C19_GateHasNoSideEffects ==
    [][(resp = NoRequest /\ resp' # NoRequest) =>
           /\ now' = now
           /\ (~ok(resp'.status) \/ resp'.op \in {"list", "get"}) =>
                  /\ tasks' = tasks
                  /\ usedIds' = usedIds
                  /\ creator' = creator
           /\ \A s \in tasks : s.id # resp'.tid => s \in tasks'
           /\ \A t \in tasks' : t.id # resp'.tid => t \in tasks]_vars

C19_Witness ==
    /\ resp.op = "toggle"
    /\ resp.status = 403
    /\ \E t \in tasks : t.id = resp.tid /\ t.user_id = resp.user_id
                          /\ ~t.completed
    /\ \E t \in tasks : t.user_id = Identity(resp.authorization)

\* ======================================================== repeated reads
\* What the gate decided, read off the status of the response.
Decision(status) ==
    CASE status = 401 -> "unauthenticated"
      [] status = 403 -> "forbidden"
      [] status = 500 -> "error"
      [] OTHER -> "allowed"

\* The request being answered repeats the earlier allowed read: same
\* operation, same path, same credential.
Repeats ==
    /\ Handled
    /\ earlier # Summary(NoRequest)
    /\ resp.op = earlier.op
    /\ resp.user_id = earlier.user_id
    /\ resp.tid = earlier.tid
    /\ resp.authorization = earlier.authorization

\* C20 as stated: a list or get that was allowed, when repeated with the
\* same credential on the same path, is decided the same way again,
\* whatever was requested in between.
C20_RepeatedReadSameDecision ==
    Repeats => Decision(resp.status) = Decision(earlier.status)

\* C20 amended: a list or get that was allowed, when repeated with the same
\* credential on the same path before the credential's "exp", is decided
\* the same way again, whatever was requested in between.
C20_RepeatedReadBeforeExpiry ==
    (Repeats /\ now < resp.authorization.token.exp)
        => Decision(resp.status) = Decision(earlier.status)

C20_Witness ==
    /\ Repeats
    /\ now < resp.authorization.token.exp
    /\ now > 0
    /\ earlier.op = "get"
    /\ earlier.status = 200
    /\ resp.status = 404

\* ============================================================ API client
\* C8: when apiRequest gets a 401 it removes auth_token and auth_user, sets
\* the location to /login and throws 'Unauthorized'; it returns no data.
C8_On401ClearsAndRedirects ==
    outcome.status = 401 =>
        /\ getToken(localStorage) = NoToken
        /\ getUser(localStorage) = NoUser
        /\ nav = Nav("/login", TRUE)
        /\ outcome = Throw(401, "Unauthorized")

C8_Witness ==
    /\ outcome.status = 401
    /\ pageUser # NoUser
    /\ location = "/todos"

C10_EveryRequestHasBearer ==
    \A i \in 1..Len(inflight) : inflight[i].authorization.scheme = "Bearer"

\* ========================================================= demo session
\* The token login() stored for the user with this id.
DemoCredentials(id) == { Bearer(mockToken(mockUser(id, e))) : e \in Emails }

\* C13: a task request that carries the token login() stored, on the path
\* of the user login() stored, passes the backend's verification: it is not
\* answered 401.
C13_DemoTokenVerifies ==
    (Handled /\ resp.authorization \in DemoCredentials(resp.user_id))
        => resp.status # 401

\* C14: logout() clears the stored token and user and sends the browser to
\* the login page; a request sent with the store cleared carries no
\* credential and is answered 401.
C14_LogoutClearsAndGoesToLogin ==
    [][/\ (isAuthenticated(localStorage) /\ localStorage' # localStorage
              /\ outcome' = NoOutcome) =>
              /\ localStorage' = EmptyStorage
              /\ nav'.to = "/login"
       /\ (resp'.op # "none" /\ resp'.authorization = apiHeaders(EmptyStorage))
              => resp'.status = 401]_vars

\* The outcome settled for an HTTP response (not for a rejected fetch).
Answered == outcome # NoOutcome /\ outcome.status # 0

\* The fixed message of each status that has one.
FixedError(status) ==
    CASE status = 401 -> "Unauthorized"
      [] status = 403 -> "Access denied"
      [] status = 404 -> "Resource not found"

C26_FilterHandlersFrame ==
    /\ \A value \in SearchValues :
           LET f == handleSearchChange(filters, value)
           IN  /\ f.search = value
               /\ f.completed = filters.completed
               /\ f.sort = filters.sort
               /\ f.order = filters.order
    /\ \A value \in CompletedValues :
           LET f == handleCompletedFilter(filters, value)
           IN  /\ f.completed = value
               /\ f.search = filters.search
               /\ f.sort = filters.sort
               /\ f.order = filters.order
    /\ \A value \in SortValues :
           LET f == handleSortChange(filters, value)
           IN  /\ f.sort = value
               /\ f.search = filters.search
               /\ f.completed = filters.completed
               /\ f.order = filters.order
    /\ clearFilters = DefaultFilters
    /\ filters.order = "desc"

C26_Witness ==
    /\ filters.search = "x"
    /\ filters.completed = "true"
    /\ filters.sort = "title"
    /\ filters.order = "desc"
    /\ Len(inflight) > 0
    /\ inflight[Len(inflight)].arg = clearFilters

\* ========================================================= path identity
\* A request was issued in this step.
Issued == Len(inflight') > Len(inflight)

\* C27: the path of every request a page issues is the id of the stored
\* user, and the stored user's id is the "sub" claim of the stored token.
C27_PathIsStoredUser ==
    [][/\ Issued => inflight'[Len(inflight')].user_id = getUser(localStorage).id
       /\ getUser(localStorage').id = getToken(localStorage').payload.sub]_vars

\* ================================================================= form
\* C21: a submit with a title that is empty or all whitespace sets the
\* error 'Title is required' and sends no request; a submit with any other
\* title sends exactly one create request, with the title and description
\* of the form; and no create request is sent in any other way.
C21_BlankTitleIsNotSubmitted ==
    [][/\ (FormSubmit /\ Trim(todoForm.title) = <<>>) =>
              /\ todoForm'.error = "Title is required"
              /\ inflight' = inflight
              /\ ~submitting'
       /\ (FormSubmit /\ Trim(todoForm.title) # <<>>) =>
              /\ Len(inflight') = Len(inflight) + 1
              /\ SubSeq(inflight', 1, Len(inflight)) = inflight
              /\ inflight'[Len(inflight')].op = "create"
              /\ inflight'[Len(inflight')].arg =
                     [title |-> todoForm.title,
                      description |-> todoForm.description]
       /\ (Issued /\ location = "/todos/new") =>
              /\ Trim(todoForm.title) # <<>>
              /\ inflight'[Len(inflight')].arg.title = todoForm.title]_vars

C21_Witness ==
    /\ location = "/todos/new"
    /\ todoForm.title # <<>>
    /\ Trim(todoForm.title) = <<>>
    /\ todoForm.error = "Title is required"
    /\ inflight = <<>>
    /\ ~submitting

\* ============================================================= deletion
\* C22: a DELETE request for a task is sent only in the step in which the
\* user accepts the confirmation dialog for that task; when the user
\* declines, no request is sent.
C22_DeleteOnlyAfterConfirm ==
    [][/\ (Issued /\ inflight'[Len(inflight')].op = "delete") =>
              confirmed' = [tid |-> inflight'[Len(inflight')].tid,
                            accepted |-> TRUE]
       /\ (confirmed' # confirmed /\ confirmed' # NoDialog
              /\ ~confirmed'.accepted) =>
              inflight' = inflight]_vars

C22_Witness ==
    /\ confirmed # NoDialog
    /\ ~confirmed.accepted
    /\ \E i \in 1..Len(inflight) :
           /\ inflight[i].op = "delete"
           /\ inflight[i].tid # confirmed.tid

\* ========================================================== after a 401
\* A page is mounted with a user whose session is no longer stored: the
\* 401 branch of apiRequest has cleared it.
SessionEnded == pageUser # NoUser /\ ~isAuthenticated(localStorage)

\* C23: once a 401 has ended the session, no task API request is issued
\* until a new login.
C23_NoRequestAfter401 ==
    [][SessionEnded => ~Issued]_vars

\* ============================================================== refetch
\* The continuation of a toggle or delete call runs in this step.
Continues(kind) ==
    /\ outcome # NoOutcome /\ outcome' = NoOutcome
    /\ settled.op \in {"toggle", "delete"} /\ ~settled.stale
    /\ outcome.kind = kind

\* C24: after a toggle or delete request succeeds a list request is
\* issued; after it fails the alert is shown, no request is issued and the
\* displayed list stays as it is; and a deleted task that has left the
\* displayed list does not come back into it.
C24_RefetchReflectsChange ==
    [][/\ Continues("return") =>
              /\ Issued
              /\ inflight'[Len(inflight')].op = "list"
              /\ alerted' = alerted
       /\ Continues("throw") =>
              /\ alerted' = FailureAlert(settled.op)
              /\ inflight' = inflight
              /\ shown' = shown
       /\ (TodosMounted /\ location' = location /\ pageUser' = pageUser) =>
              \A id \in usedIds \ (Ids(tasks) \cup Ids(shown.rows)) :
                  id \notin Ids(shown'.rows)]_vars

\* ====================================================== overlapping lists
\* C28: once the list for the selected filters is displayed, no response
\* that arrives later replaces it by the list for other filters, as long
\* as the selection stays as it is.
C28_LateResponseNeverOverwrites ==
    [][(/\ TodosMounted
        /\ shown.for = filters
        /\ filters' = filters
        /\ location' = location /\ pageUser' = pageUser) =>
          shown'.for = filters]_vars

\* C29: on /todos the loading flag is set whenever a list request is in
\* flight.
C29_LoadingWhileListInFlight ==
    (TodosMounted /\ ListInFlight) => loading

\* ======================================================= protected pages
\* C11: on /todos, /todos/new and /todos/[id] a request to the task API is
\* issued only while the page's user state is set, and for that user's id;
\* the user state is set only from an authenticated session; and a page
\* mounted without one navigates, of its own, nowhere but to /login.
C11_NoRequestWithoutSession ==
    [][/\ Len(inflight') > Len(inflight) =>
              /\ location \in Protected
              /\ pageUser # NoUser
              /\ inflight'[Len(inflight')].user_id = pageUser.id
       /\ (pageUser' # pageUser /\ pageUser' # NoUser) =>
              /\ isAuthenticated(localStorage)
              /\ pageUser' = getUser(localStorage)
       /\ (location \in Protected /\ ~isAuthenticated(localStorage)
              /\ nav = NoNav /\ nav' # NoNav /\ ~nav'.hard) =>
              /\ nav' = Nav("/login", FALSE)
              /\ pageUser' = NoUser
              /\ inflight' = inflight]_vars

C11_Witness ==
    /\ location \in Protected
    /\ ~isAuthenticated(localStorage)
    /\ pageUser = NoUser
    /\ nav = Nav("/login", FALSE)
    /\ inflight = <<>>

====
